---- MODULE Spec2Model ----
(***************************************************************************)
(* Model of src/mlp/learning_rules.py: the four gradient based learning    *)
(* rules (GradientDescentLearningRule, MomentumLearningRule,               *)
(* RMSPropLearningRule, AdamLearningRule) driven by a caller that           *)
(* constructs one rule, binds it to one of its parameter lists with        *)
(* initialise, and then calls update_params and reset in any order.        *)
(*                                                                         *)
(* Numbers.  A Python float is modelled by the real number it stands for.  *)
(* Hyperparameters, gradients and accumulators are exact rationals <<n,d>> *)
(* (d > 0, lowest terms).  A parameter element is the real number          *)
(*      q - SUM_k  s[k].num / (sqrt(s[k].avg) + s[k].eps)                  *)
(* kept as the record [q, s]: the rational part q and the sequence s of    *)
(* the normalised steps subtracted from it so far, in the order RMSProp    *)
(* and Adam subtracted them.  Nothing is rounded.                           *)
(*                                                                         *)
(* Arrays.  A numpy array is a heap cell: an id mapped to a sequence of    *)
(* elements.  The caller owns the parameter arrays; the rule owns the      *)
(* accumulator arrays it allocates in initialise.  The in-place operators *)
(* of numpy rewrite the cell and keep the id.                              *)
(***************************************************************************)
EXTENDS Integers, Sequences, FiniteSets, TLC

VARIABLES
    self,       \* the rule object's attributes (None: attribute not set)
    heap,       \* array id -> array contents
    nextId,     \* id the next allocated array gets
    call,       \* the last call the caller made: [op, arg]
    result,     \* how that call ended: "ok" or the exception raised
    ninit,      \* initialise calls made so far
    nupdates,   \* update_params calls made so far
    pair        \* two rules driven side by side (SpecPair only)

vars == <<self, heap, nextId, call, result, ninit, nupdates, pair>>

(* Bounds of the exploration. *)
MaxUpdates == 2
MaxInitialise == 2

None == "None"

----------------------------------------------------------------------------
(* Exact rational arithmetic. *)

Abs(x) == IF x < 0 THEN -x ELSE x

RECURSIVE GCD(_, _)
GCD(a, b) == IF b = 0 THEN a ELSE GCD(b, a % b)

Norm(n, d) ==
    LET g == GCD(Abs(n), Abs(d))
        sg == IF d < 0 THEN -1 ELSE 1
    IN  <<sg * (n \div g), sg * (d \div g)>>

R(n, d) == Norm(n, d)
Zero == <<0, 1>>
One == <<1, 1>>

RAdd(x, y) == Norm(x[1] * y[2] + y[1] * x[2], x[2] * y[2])
RNeg(x) == <<-x[1], x[2]>>
RSub(x, y) == RAdd(x, RNeg(y))
RMul(x, y) == Norm(x[1] * y[1], x[2] * y[2])
RDiv(x, y) == Norm(x[1] * y[2], x[2] * y[1])
RECURSIVE RPow(_, _)
RPow(x, k) == IF k = 0 THEN One ELSE RMul(x, RPow(x, k - 1))
RLt(x, y) == x[1] * y[2] < y[1] * x[2]
RLeq(x, y) == x[1] * y[2] <= y[1] * x[2]
RGt(x, y) == RLt(y, x)
RGeq(x, y) == RLeq(y, x)

Min(a, b) == IF a <= b THEN a ELSE b

----------------------------------------------------------------------------
(* Arrays and the elementwise numpy operations the rules use. *)

\* The 1e-8 added to the square root (learning_rules.py lines 242 and 335).
Eps == <<1, 100000000>>

\* np.zeros_like(param), np.ones_like(param): an accumulator of param's shape.
ZerosLike(param) == [j \in 1..Len(param) |-> Zero]
OnesLike(param) == [j \in 1..Len(param) |-> One]

\* A caller's parameter array holding the rationals of sequence qs.
ParamArray(qs) == [j \in 1..Len(qs) |-> [q |-> qs[j], s |-> <<>>]]

\* Faulty variant: the in-place scaling is lost (the accumulator never decays).
AccIMulScalar_Skipped(acc, c) == acc

\* acc *= c   (accumulator array, scalar)
AccIMulScalar(acc, c) == [j \in 1..Len(acc) |-> RMul(acc[j], c)]
\* acc += x,  acc -= x   (accumulator array, array of the same shape)
AccIAdd(acc, x) == [j \in 1..Len(acc) |-> RAdd(acc[j], x[j])]
\* Faulty variant: the subtraction done as an addition.
AccISub_Added(acc, x) == [j \in 1..Len(acc) |-> RAdd(acc[j], x[j])]
AccISub(acc, x) == [j \in 1..Len(acc) |-> RSub(acc[j], x[j])]
\* c * grad   and   grad ** 2   (new arrays)
Scale(c, grad) == [j \in 1..Len(grad) |-> RMul(c, grad[j])]
\* Faulty variant: the gradient is not squared.
Square_Missing(grad) == grad
Square(grad) == [j \in 1..Len(grad) |-> RMul(grad[j], grad[j])]
\* param -= x,  param += x   (parameter array, rational array)
ParamISub(param, x) ==
    [j \in 1..Len(param) |-> [param[j] EXCEPT !.q = RSub(@, x[j])]]
ParamIAdd(param, x) ==
    [j \in 1..Len(param) |-> [param[j] EXCEPT !.q = RAdd(@, x[j])]]
\* param -= num / (average ** 0.5 + 1e-8)
ParamISubNormalised(param, num, average) ==
    [j \in 1..Len(param) |->
        [param[j] EXCEPT !.s =
            Append(@, [num |-> num[j], avg |-> average[j], eps |-> Eps])]]

----------------------------------------------------------------------------
(* The caller: its parameter arrays, its parameter lists, the              *)
(* hyperparameters it constructs rules with and the gradients it passes.   *)

Classes == {"GradientDescent", "Momentum", "RMSProp", "Adam"}
HasMomCoeff(cls) == cls \in {"Momentum", "Adam"}
HasDecayRate(cls) == cls \in {"RMSProp", "Adam"}

\* The caller's arrays: ids 1..3, with their initial contents.
CallerArrays ==
    (1 :> ParamArray(<<One>>)) @@
    (2 :> ParamArray(<<R(-1, 2), Zero>>)) @@
    (3 :> ParamArray(<<One>>))
CallerIds == DOMAIN CallerArrays

\* The caller's parameter lists (each a sequence of array ids).
ParamLists == [A |-> <<1, 2>>, B |-> <<3>>, E |-> <<>>]
ListIds == {"A", "B", "E"}

LearningRates == {R(-1, 10), Zero, R(1, 10)}
MomCoeffs == {R(-1, 10), Zero, R(9, 10), One, R(11, 10)}
DecayRates == {R(-1, 10), Zero, R(9, 10), One, R(11, 10)}

GradVals == {R(-1, 1), Zero, One}
\* The gradient array of n elements g, -g, g, ...
GradArray(n, g) == [j \in 1..n |-> IF j % 2 = 1 THEN g ELSE RNeg(g)]
\* Shape of the gradient at each position: that of the caller's arrays 1, 2.
GradShape(i) == Len(CallerArrays[i])
\* The gradient lists the caller passes: one or two gradient arrays.
GradLists ==
    {<<GradArray(GradShape(1), g)>> : g \in GradVals} \cup
    {<<GradArray(GradShape(1), g), GradArray(GradShape(2), g)>> : g \in GradVals}

----------------------------------------------------------------------------
(* The rule object and the machine a method runs on.                       *)
(* m = [self, heap, nextId, exc]: exc is "ok" or the exception raised.     *)

\* No object yet: cls None, no attribute set (attrs is the object's set of
\* attribute names; an attribute outside attrs holds a placeholder).
NoObject ==
    [cls |-> None, attrs |-> {},
     learning_rate |-> Zero, mom_coeff |-> Zero, decay_rate |-> Zero,
     params |-> None, moms |-> <<>>, averages |-> <<>>]

SetAttr(obj, name, value) ==
    [[obj EXCEPT ![name] = value] EXCEPT !.attrs = @ \cup {name}]
HasAttr(obj, name) == name \in obj.attrs

Raise(m, exc) == [m EXCEPT !.exc = exc]

\* Arrays no longer referenced by the rule are freed (the caller's stay).
Collect(m) ==
    LET live == CallerIds
                \cup {m.self.moms[i] : i \in 1..Len(m.self.moms)}
                \cup {m.self.averages[i] : i \in 1..Len(m.self.averages)}
    IN  [m EXCEPT !.heap = [id \in (DOMAIN m.heap) \cap live |-> m.heap[id]]]

\* The list object self.params refers to, as the sequence of its arrays' ids.
Params(obj) == ParamLists[obj.params]

----------------------------------------------------------------------------
(* __init__ *)

\* Faulty variant: learning_rate >= 0 asserted instead of > 0.
GradientDescent__init___NonStrict(m, learning_rate) ==
    IF ~RGeq(learning_rate, Zero)
    THEN Raise(m, "AssertionError")
    ELSE [m EXCEPT !.self = SetAttr(@, "learning_rate", learning_rate)]

GradientDescent__init__(m, learning_rate) ==
    IF ~RGt(learning_rate, Zero)
    THEN Raise(m, "AssertionError")
    ELSE [m EXCEPT !.self = SetAttr(@, "learning_rate", learning_rate)]

Momentum__init__(m, learning_rate, mom_coeff) ==
    LET m1 == GradientDescent__init__(m, learning_rate)
    IN  IF m1.exc # "ok" THEN m1
        ELSE IF ~(RGeq(mom_coeff, Zero) /\ RLeq(mom_coeff, One))
        THEN Raise(m1, "AssertionError")
        ELSE [m1 EXCEPT !.self = SetAttr(@, "mom_coeff", mom_coeff)]

RMSProp__init__(m, learning_rate, decay_rate) ==
    LET m1 == GradientDescent__init__(m, learning_rate)
    IN  IF m1.exc # "ok" THEN m1
        ELSE IF ~(RGeq(decay_rate, Zero) /\ RLeq(decay_rate, One))
        THEN Raise(m1, "AssertionError")
        ELSE [m1 EXCEPT !.self = SetAttr(@, "decay_rate", decay_rate)]

Adam__init__(m, learning_rate, mom_coeff, decay_rate) ==
    LET m1 == GradientDescent__init__(m, learning_rate)
    IN  IF m1.exc # "ok" THEN m1
        ELSE IF ~(RGeq(mom_coeff, Zero) /\ RLeq(mom_coeff, One))
        THEN Raise(m1, "AssertionError")
        ELSE IF ~(RGeq(decay_rate, Zero) /\ RLeq(decay_rate, One))
        THEN Raise(m1, "AssertionError")
        ELSE [m1 EXCEPT !.self =
                SetAttr(SetAttr(@, "mom_coeff", mom_coeff),
                        "decay_rate", decay_rate)]

----------------------------------------------------------------------------
(* initialise *)

GradientDescent_initialise(m, params) ==
    [m EXCEPT !.self = SetAttr(@, "params", params)]

\* for param in self.params: self.<attr>.append(np.<fill>_like(param))
RECURSIVE AppendLikeLoop(_, _, _, _)
AppendLikeLoop(m, attr, fill, i) ==
    IF i > Len(Params(m.self)) THEN m
    ELSE LET param == m.heap[Params(m.self)[i]]
             arr == IF fill = "zeros" THEN ZerosLike(param) ELSE OnesLike(param)
             id == m.nextId
         IN  AppendLikeLoop(
                 [m EXCEPT !.heap = (id :> arr) @@ @,
                           !.nextId = id + 1,
                           !.self[attr] = Append(@, id)],
                 attr, fill, i + 1)

Momentum_initialise(m, params) ==
    LET m1 == GradientDescent_initialise(m, params)
        m2 == Collect([m1 EXCEPT !.self = SetAttr(@, "moms", <<>>)])
    IN  AppendLikeLoop(m2, "moms", "zeros", 1)

RMSProp_initialise(m, params) ==
    LET m1 == GradientDescent_initialise(m, params)
        m2 == Collect([m1 EXCEPT !.self = SetAttr(@, "averages", <<>>)])
    IN  AppendLikeLoop(m2, "averages", "ones", 1)

\* Faulty variant: self.moms is not replaced by a new list before the loop.
Adam_initialise_KeepsMoms(m, params) ==
    LET m1 == GradientDescent_initialise(m, params)
        m2 == Collect([m1 EXCEPT !.self = SetAttr(@, "averages", <<>>)])
        m3 == AppendLikeLoop(m2, "averages", "zeros", 1)
        m4 == [m3 EXCEPT !.self = SetAttr(@, "moms", m3.self.moms)]
    IN  AppendLikeLoop(m4, "moms", "zeros", 1)

Adam_initialise(m, params) ==
    LET m1 == GradientDescent_initialise(m, params)
        m2 == Collect([m1 EXCEPT !.self = SetAttr(@, "averages", <<>>)])
        m3 == AppendLikeLoop(m2, "averages", "zeros", 1)
        m4 == Collect([m3 EXCEPT !.self = SetAttr(@, "moms", <<>>)])
    IN  AppendLikeLoop(m4, "moms", "zeros", 1)

----------------------------------------------------------------------------
(* reset *)

\* Faulty variant: reset drops the parameter binding.
GradientDescent_reset_Unbinds(m) ==
    [m EXCEPT !.self.attrs = @ \ {"params"}, !.self.params = None]

GradientDescent_reset(m) == m

\* zip(xs) of a single list: the 1-tuples (x,).
Zip1(xs) == [i \in 1..Len(xs) |-> <<xs[i]>>]

\* t *= 0. with t a tuple: a tuple cannot be multiplied by a float.
TupleIMulFloat(m, t) == Raise(m, "TypeError")

\* for x in zip(self.<attr>): x *= 0.
RECURSIVE ZeroLoop(_, _, _)
ZeroLoop(m, tuples, i) ==
    IF m.exc # "ok" \/ i > Len(tuples) THEN m
    ELSE ZeroLoop(TupleIMulFloat(m, tuples[i]), tuples, i + 1)

Momentum_reset(m) ==
    IF ~HasAttr(m.self, "moms") THEN Raise(m, "AttributeError")
    ELSE ZeroLoop(m, Zip1(m.self.moms), 1)

RMSProp_reset(m) ==
    IF ~HasAttr(m.self, "averages") THEN Raise(m, "AttributeError")
    ELSE ZeroLoop(m, Zip1(m.self.averages), 1)

Adam_reset(m) ==
    IF ~HasAttr(m.self, "averages") THEN Raise(m, "AttributeError")
    ELSE LET m1 == ZeroLoop(m, Zip1(m.self.averages), 1)
         IN  IF m1.exc # "ok" THEN m1
             ELSE IF ~HasAttr(m1.self, "moms") THEN Raise(m1, "AttributeError")
             ELSE ZeroLoop(m1, Zip1(m1.self.moms), 1)

----------------------------------------------------------------------------
(* update_params *)

\* One iteration of each rule's loop, on the i-th elements of the zipped lists.
GradientDescentStep(m, grads_wrt_params, i) ==
    LET param == Params(m.self)[i]
        grad == grads_wrt_params[i]
    IN  [m EXCEPT !.heap[param] = ParamISub(@, Scale(m.self.learning_rate, grad))]

\* Faulty variant: the parameter is moved by the velocity of the previous
\* step (param += mom done before mom is updated).
MomentumStep_StaleVelocity(m, grads_wrt_params, i) ==
    LET param == Params(m.self)[i]
        mom == m.self.moms[i]
        grad == grads_wrt_params[i]
        h1 == [m.heap EXCEPT ![param] = ParamIAdd(@, m.heap[mom])]
        h2 == [h1 EXCEPT ![mom] = AccIMulScalar(@, m.self.mom_coeff)]
        h3 == [h2 EXCEPT ![mom] = AccISub(@, Scale(m.self.learning_rate, grad))]
    IN  [m EXCEPT !.heap = h3]

MomentumStep(m, grads_wrt_params, i) ==
    LET param == Params(m.self)[i]
        mom == m.self.moms[i]
        grad == grads_wrt_params[i]
        h1 == [m.heap EXCEPT ![mom] = AccIMulScalar(@, m.self.mom_coeff)]
        h2 == [h1 EXCEPT ![mom] = AccISub(@, Scale(m.self.learning_rate, grad))]
        h3 == [h2 EXCEPT ![param] = ParamIAdd(@, h2[mom])]
    IN  [m EXCEPT !.heap = h3]

RMSPropStep(m, grads_wrt_params, i) ==
    LET param == Params(m.self)[i]
        average == m.self.averages[i]
        grad == grads_wrt_params[i]
        h1 == [m.heap EXCEPT ![average] = AccIMulScalar(@, m.self.decay_rate)]
        h2 == [h1 EXCEPT ![average] =
                 AccIAdd(@, Scale(RSub(One, m.self.decay_rate), Square(grad)))]
        h3 == [h2 EXCEPT ![param] =
                 ParamISubNormalised(@, Scale(m.self.learning_rate, grad),
                                     h2[average])]
    IN  [m EXCEPT !.heap = h3]

\* Variant with the bias correction of the published Adam algorithm: the
\* moments are divided by 1 - beta^t, t the number of this update.
BiasCorrected(acc, beta, t) ==
    IF RLt(beta, One)
    THEN [j \in 1..Len(acc) |-> RDiv(acc[j], RSub(One, RPow(beta, t)))]
    ELSE acc

AdamStep_BiasCorrected(m, grads_wrt_params, i) ==
    LET param == Params(m.self)[i]
        mom == m.self.moms[i]
        average == m.self.averages[i]
        grad == grads_wrt_params[i]
        h1 == [m.heap EXCEPT ![mom] = AccIMulScalar(@, m.self.mom_coeff)]
        h2 == [h1 EXCEPT ![mom] =
                 AccIAdd(@, Scale(RSub(One, m.self.mom_coeff), grad))]
        h3 == [h2 EXCEPT ![average] = AccIMulScalar(@, m.self.decay_rate)]
        h4 == [h3 EXCEPT ![average] =
                 AccIAdd(@, Scale(RSub(One, m.self.decay_rate), Square(grad)))]
        h5 == [h4 EXCEPT ![param] =
                 ParamISubNormalised(@,
                     Scale(m.self.learning_rate,
                           BiasCorrected(h4[mom], m.self.mom_coeff, nupdates + 1)),
                     BiasCorrected(h4[average], m.self.decay_rate, nupdates + 1))]
    IN  [m EXCEPT !.heap = h5]

AdamStep(m, grads_wrt_params, i) ==
    LET param == Params(m.self)[i]
        mom == m.self.moms[i]
        average == m.self.averages[i]
        grad == grads_wrt_params[i]
        h1 == [m.heap EXCEPT ![mom] = AccIMulScalar(@, m.self.mom_coeff)]
        h2 == [h1 EXCEPT ![mom] =
                 AccIAdd(@, Scale(RSub(One, m.self.mom_coeff), grad))]
        h3 == [h2 EXCEPT ![average] = AccIMulScalar(@, m.self.decay_rate)]
        h4 == [h3 EXCEPT ![average] =
                 AccIAdd(@, Scale(RSub(One, m.self.decay_rate), Square(grad)))]
        h5 == [h4 EXCEPT ![param] =
                 ParamISubNormalised(@, Scale(m.self.learning_rate, h4[mom]),
                                     h4[average])]
    IN  [m EXCEPT !.heap = h5]

Step(m, grads_wrt_params, i) ==
    CASE m.self.cls = "GradientDescent" -> GradientDescentStep(m, grads_wrt_params, i)
      [] m.self.cls = "Momentum" -> MomentumStep(m, grads_wrt_params, i)
      [] m.self.cls = "RMSProp" -> RMSPropStep(m, grads_wrt_params, i)
      [] m.self.cls = "Adam" -> AdamStep(m, grads_wrt_params, i)

\* for ... in zip(...): the loop runs over the shortest of the zipped lists.
RECURSIVE ZipLoop(_, _, _, _)
ZipLoop(m, grads_wrt_params, i, n) ==
    IF i > n THEN m
    ELSE ZipLoop(Step(m, grads_wrt_params, i), grads_wrt_params, i + 1, n)

GradientDescent_update_params(m, grads_wrt_params) ==
    IF ~HasAttr(m.self, "params") THEN Raise(m, "AttributeError")
    ELSE ZipLoop(m, grads_wrt_params, 1,
                 Min(Len(Params(m.self)), Len(grads_wrt_params)))

Momentum_update_params(m, grads_wrt_params) ==
    IF ~HasAttr(m.self, "params") \/ ~HasAttr(m.self, "moms")
    THEN Raise(m, "AttributeError")
    ELSE ZipLoop(m, grads_wrt_params, 1,
                 Min(Min(Len(Params(m.self)), Len(m.self.moms)),
                     Len(grads_wrt_params)))

RMSProp_update_params(m, grads_wrt_params) ==
    IF ~HasAttr(m.self, "params") \/ ~HasAttr(m.self, "averages")
    THEN Raise(m, "AttributeError")
    ELSE ZipLoop(m, grads_wrt_params, 1,
                 Min(Min(Len(Params(m.self)), Len(m.self.averages)),
                     Len(grads_wrt_params)))

Adam_update_params(m, grads_wrt_params) ==
    IF ~HasAttr(m.self, "params") \/ ~HasAttr(m.self, "moms")
       \/ ~HasAttr(m.self, "averages")
    THEN Raise(m, "AttributeError")
    ELSE ZipLoop(m, grads_wrt_params, 1,
                 Min(Min(Len(Params(m.self)), Len(m.self.moms)),
                     Min(Len(m.self.averages), Len(grads_wrt_params))))

----------------------------------------------------------------------------
(* Dispatch on the object's class. *)

Do__init__(m, cls, learning_rate, mom_coeff, decay_rate) ==
    LET m0 == [m EXCEPT !.self.cls = cls]
    IN  CASE cls = "GradientDescent" -> GradientDescent__init__(m0, learning_rate)
          [] cls = "Momentum" -> Momentum__init__(m0, learning_rate, mom_coeff)
          [] cls = "RMSProp" -> RMSProp__init__(m0, learning_rate, decay_rate)
          [] cls = "Adam" -> Adam__init__(m0, learning_rate, mom_coeff, decay_rate)

DoInitialise(m, params) ==
    CASE m.self.cls = "GradientDescent" -> GradientDescent_initialise(m, params)
      [] m.self.cls = "Momentum" -> Momentum_initialise(m, params)
      [] m.self.cls = "RMSProp" -> RMSProp_initialise(m, params)
      [] m.self.cls = "Adam" -> Adam_initialise(m, params)

DoReset(m) ==
    CASE m.self.cls = "GradientDescent" -> GradientDescent_reset(m)
      [] m.self.cls = "Momentum" -> Momentum_reset(m)
      [] m.self.cls = "RMSProp" -> RMSProp_reset(m)
      [] m.self.cls = "Adam" -> Adam_reset(m)

DoUpdateParams(m, grads_wrt_params) ==
    CASE m.self.cls = "GradientDescent" -> GradientDescent_update_params(m, grads_wrt_params)
      [] m.self.cls = "Momentum" -> Momentum_update_params(m, grads_wrt_params)
      [] m.self.cls = "RMSProp" -> RMSProp_update_params(m, grads_wrt_params)
      [] m.self.cls = "Adam" -> Adam_update_params(m, grads_wrt_params)

----------------------------------------------------------------------------
(* The caller's calls. *)

Machine == [self |-> self, heap |-> heap, nextId |-> nextId, exc |-> "ok"]

Commit(m) ==
    /\ self' = m.self
    /\ heap' = m.heap
    /\ nextId' = m.nextId
    /\ result' = m.exc

\* Gradient arrays have the shape of the parameter they are zipped with.
ShapesMatch(grads_wrt_params) ==
    HasAttr(self, "params") =>
        \A i \in 1..Min(Len(Params(self)), Len(grads_wrt_params)) :
            Len(grads_wrt_params[i]) = Len(heap[Params(self)[i]])

\* No pair of rules constructed yet.
NoPair ==
    [gd |-> [self |-> NoObject, heap |-> CallerArrays,
             nextId |-> Cardinality(CallerIds) + 1, exc |-> "ok"],
     mo |-> [self |-> NoObject, heap |-> CallerArrays,
             nextId |-> Cardinality(CallerIds) + 1, exc |-> "ok"],
     ninit |-> 0, nupdates |-> 0]

Init ==
    /\ self = NoObject
    /\ heap = CallerArrays
    /\ nextId = Cardinality(CallerIds) + 1
    /\ call = [op |-> "none", arg |-> <<>>]
    /\ result = "ok"
    /\ ninit = 0
    /\ nupdates = 0
    /\ pair = NoPair

\* rule = Class(learning_rate, ...): a failed constructor leaves no object.
Construct(cls, learning_rate, mom_coeff, decay_rate) ==
    /\ self.cls = None
    /\ LET m == Do__init__(Machine, cls, learning_rate, mom_coeff, decay_rate)
       IN  Commit(IF m.exc = "ok" THEN m ELSE [m EXCEPT !.self = NoObject])
    /\ call' = [op |-> "__init__",
                arg |-> [cls |-> cls, learning_rate |-> learning_rate,
                         mom_coeff |-> mom_coeff, decay_rate |-> decay_rate]]
    /\ UNCHANGED <<ninit, nupdates, pair>>

Initialise(params) ==
    /\ self.cls # None
    /\ ninit < MaxInitialise
    /\ Commit(DoInitialise(Machine, params))
    /\ call' = [op |-> "initialise", arg |-> params]
    /\ ninit' = ninit + 1
    /\ UNCHANGED <<nupdates, pair>>

Reset ==
    /\ self.cls # None
    /\ Commit(DoReset(Machine))
    /\ call' = [op |-> "reset", arg |-> <<>>]
    /\ UNCHANGED <<ninit, nupdates, pair>>

UpdateParams(grads_wrt_params) ==
    /\ self.cls # None
    /\ nupdates < MaxUpdates
    /\ ShapesMatch(grads_wrt_params)
    /\ Commit(DoUpdateParams(Machine, grads_wrt_params))
    /\ call' = [op |-> "update_params", arg |-> grads_wrt_params]
    /\ nupdates' = nupdates + 1
    /\ UNCHANGED <<ninit, pair>>

Next ==
    \/ \E cls \in Classes, lr \in LearningRates :
        \E mc \in IF HasMomCoeff(cls) THEN MomCoeffs ELSE {Zero},
           dr \in IF HasDecayRate(cls) THEN DecayRates ELSE {Zero} :
            Construct(cls, lr, mc, dr)
    \/ \E params \in ListIds : Initialise(params)
    \/ Reset
    \/ \E grads \in GradLists : UpdateParams(grads)

Spec == Init /\ [][Next]_vars

----------------------------------------------------------------------------
(* Two rules side by side: a GradientDescentLearningRule and a             *)
(* MomentumLearningRule with mom_coeff = 0, constructed with the same      *)
(* learning rate, each with its own copy of the caller's arrays (equal     *)
(* values), given the same initialise and update_params calls.             *)

PairLearningRates == {R(1, 10), R(1, 2), One}

OkMachine(m) == [m EXCEPT !.exc = "ok"]

PairConstruct(learning_rate) ==
    /\ pair.gd.self.cls = None
    /\ pair' = [pair EXCEPT
                  !.gd = Do__init__(@, "GradientDescent", learning_rate, Zero, Zero),
                  !.mo = Do__init__(@, "Momentum", learning_rate, Zero, Zero)]
    /\ UNCHANGED <<self, heap, nextId, call, result, ninit, nupdates>>

PairInitialise(params) ==
    /\ pair.gd.self.cls # None
    /\ pair.ninit < MaxInitialise
    /\ pair' = [pair EXCEPT
                  !.gd = DoInitialise(OkMachine(@), params),
                  !.mo = DoInitialise(OkMachine(@), params),
                  !.ninit = @ + 1]
    /\ UNCHANGED <<self, heap, nextId, call, result, ninit, nupdates>>

PairUpdateParams(grads_wrt_params) ==
    /\ pair.gd.self.cls # None
    /\ pair.nupdates < MaxUpdates
    /\ pair' = [pair EXCEPT
                  !.gd = DoUpdateParams(OkMachine(@), grads_wrt_params),
                  !.mo = DoUpdateParams(OkMachine(@), grads_wrt_params),
                  !.nupdates = @ + 1]
    /\ UNCHANGED <<self, heap, nextId, call, result, ninit, nupdates>>

NextPair ==
    \/ \E lr \in PairLearningRates : PairConstruct(lr)
    \/ \E params \in ListIds : PairInitialise(params)
    \/ \E grads \in GradLists : PairUpdateParams(grads)

SpecPair == Init /\ [][NextPair]_vars

----------------------------------------------------------------------------
(* Properties. *)

Ready == HasAttr(self, "params")
AccClasses == {"Momentum", "RMSProp", "Adam"}
AllZero(arr) == \A j \in 1..Len(arr) : arr[j] = Zero
AllZeroGrads(grads) == \A i \in 1..Len(grads) : AllZero(grads[i])
InUnitInterval(x) == RLeq(Zero, x) /\ RLeq(x, One)
\* Number of positions an update with these gradients covers.
Covered(grads) == Min(Len(Params(self)), Len(grads))
HyperparametersUnchanged ==
    /\ self'.cls = self.cls
    /\ self'.learning_rate = self.learning_rate
    /\ self'.mom_coeff = self.mom_coeff
    /\ self'.decay_rate = self.decay_rate

\* C1: for Momentum, RMSProp and Adam, once initialised on a non-empty
\* parameter list, reset() completes without an error and leaves every
\* element of every accumulator zero, the accumulator arrays being the same
\* arrays as before the call.
C1_ResetZeroesInPlace ==
    [][(/\ call'.op = "reset"
        /\ self.cls \in AccClasses
        /\ Ready
        /\ Len(Params(self)) > 0)
       => (/\ result' = "ok"
           /\ self'.moms = self.moms
           /\ self'.averages = self.averages
           /\ \A i \in 1..Len(self'.moms) : AllZero(heap'[self'.moms[i]])
           /\ \A i \in 1..Len(self'.averages) : AllZero(heap'[self'.averages[i]]))
      ]_vars

\* C2: an update_params call whose gradient list differs in length from the
\* bound parameter list ends in an error; it is never accepted as a normal
\* update.
C2_LengthMismatchRaises ==
    (/\ call.op = "update_params"
     /\ Ready
     /\ Len(call.arg) # Len(Params(self)))
    => result # "ok"

\* The constructor arguments the classes must reject.
C3_Rejected(arg) ==
    \/ RLeq(arg.learning_rate, Zero)
    \/ HasMomCoeff(arg.cls) /\ ~InUnitInterval(arg.mom_coeff)
    \/ HasDecayRate(arg.cls) /\ ~InUnitInterval(arg.decay_rate)

\* C3: a constructor call fails (with the assertion error that is the
\* code's InvalidHyperparameter) exactly when learning_rate <= 0 or a
\* mom_coeff / decay_rate the class takes lies outside [0, 1]; a successful
\* call stores the hyperparameters given; and initialise, update_params and
\* reset never change them.
C3_ConstructionBoundary ==
    [][/\ call'.op = "__init__" =>
            /\ (result' = "AssertionError") <=> C3_Rejected(call'.arg)
            /\ (result' = "ok") <=> ~C3_Rejected(call'.arg)
            /\ result' # "ok" => self'.cls = None
            /\ result' = "ok" =>
                 /\ self'.cls = call'.arg.cls
                 /\ self'.learning_rate = call'.arg.learning_rate
                 /\ HasMomCoeff(self'.cls) => self'.mom_coeff = call'.arg.mom_coeff
                 /\ HasDecayRate(self'.cls) => self'.decay_rate = call'.arg.decay_rate
       /\ call'.op \in {"initialise", "update_params", "reset"} =>
            HyperparametersUnchanged
      ]_vars

\* A rule accepted with mom_coeff exactly 1 and decay_rate exactly 0 that has
\* since been initialised and updated.
C3_Witness ==
    /\ self.cls = "Adam"
    /\ self.mom_coeff = One
    /\ self.decay_rate = Zero
    /\ Ready
    /\ call.op = "update_params"
    /\ result = "ok"

\* One step of the 1-parameter scenario: learning_rate 0.1, mom_coeff 0.9,
\* gradient 1.0, from parameter p0 and velocity v0 to p1 and v1.
C4_Scenario(p0, v0, p1, v1) ==
    (/\ self.learning_rate = R(1, 10)
     /\ self.mom_coeff = R(9, 10)
     /\ self.params = "B"
     /\ call'.arg[1] = <<One>>
     /\ heap[Params(self)[1]] = ParamArray(<<p0>>)
     /\ heap[self.moms[1]] = <<v0>>)
    => (/\ heap'[self.moms[1]] = <<v1>>
        /\ heap'[Params(self)[1]] = ParamArray(<<p1>>))

\* C4: each Momentum update sets velocity'[i] = mom_coeff * velocity[i] -
\* learning_rate * g[i] and then parameter'[i] = parameter[i] + velocity'[i]
\* (the velocity of this step); from parameter 1.0, velocity 0.0,
\* learning_rate 0.1, mom_coeff 0.9, two updates with gradient 1.0 give
\* velocity -0.1, parameter 0.9 and then velocity -0.19, parameter 0.71.
C4_MomentumUpdate ==
    [][(/\ call'.op = "update_params"
        /\ self.cls = "Momentum"
        /\ result' = "ok")
       => /\ \A i \in 1..Covered(call'.arg) :
               LET p == Params(self)[i]
                   v == self.moms[i]
                   g == call'.arg[i]
               IN  \A j \in 1..Len(heap[p]) :
                     /\ heap'[v][j] = RSub(RMul(self.mom_coeff, heap[v][j]),
                                           RMul(self.learning_rate, g[j]))
                     /\ heap'[p][j].q = RAdd(heap[p][j].q, heap'[v][j])
                     /\ heap'[p][j].s = heap[p][j].s
          /\ C4_Scenario(One, Zero, R(9, 10), R(-1, 10))
          /\ C4_Scenario(R(9, 10), R(-1, 10), R(71, 100), R(-19, 100))
      ]_vars

\* The end of the two-update scenario.
C4_Witness ==
    /\ self.cls = "Momentum"
    /\ Ready
    /\ self.params = "B"
    /\ self.learning_rate = R(1, 10)
    /\ self.mom_coeff = R(9, 10)
    /\ call.op = "update_params"
    /\ heap[Params(self)[1]] = ParamArray(<<R(71, 100)>>)
    /\ heap[self.moms[1]] = <<R(-19, 100)>>

\* C5: a Momentum rule with mom_coeff = 0 and a GradientDescent rule with the
\* same learning_rate, initialised on equal parameter values and given the
\* same gradients, hold equal parameter values after every update.
C5_MomentumZeroIsGradientDescent ==
    (/\ pair.gd.self.cls = "GradientDescent"
     /\ pair.mo.self.cls = "Momentum"
     /\ pair.mo.self.mom_coeff = Zero
     /\ pair.mo.self.learning_rate = pair.gd.self.learning_rate)
    => \A id \in CallerIds : pair.mo.heap[id] = pair.gd.heap[id]

\* Two updates done, parameters moved, and the last velocity not zero.
C5_Witness ==
    /\ pair.mo.self.cls = "Momentum"
    /\ HasAttr(pair.mo.self, "params")
    /\ pair.mo.self.params = "A"
    /\ pair.nupdates = 2
    /\ pair.mo.exc = "ok"
    /\ pair.mo.heap[2] # CallerArrays[2]
    /\ pair.mo.heap[pair.mo.self.moms[2]] = <<R(-1, 2), R(1, 2)>>

\* C6: in RMSProp and Adam every element of the squared-gradient moving
\* average is nonnegative in every reachable state.
C6_SecondMomentNonnegative ==
    (self.cls \in {"RMSProp", "Adam"} /\ HasAttr(self, "averages"))
    => \A i \in 1..Len(self.averages) :
         \A j \in 1..Len(heap[self.averages[i]]) :
           RGeq(heap[self.averages[i]][j], Zero)

\* An RMSProp rule with decay_rate 0 just updated with gradient -1.
C6_Witness ==
    /\ self.cls = "RMSProp"
    /\ self.decay_rate = Zero
    /\ Ready
    /\ self.params = "B"
    /\ call.op = "update_params"
    /\ result = "ok"
    /\ call.arg[1] = <<R(-1, 1)>>
    /\ heap[self.averages[1]] = <<One>>

\* The parts of the lifecycle: entering READY, staying READY, and an update
\* writing to the bound arrays only.
C7_InitialiseEntersReady ==
    /\ (~Ready /\ Ready') => call'.op = "initialise"
    /\ call'.op = "initialise" =>
         (Ready' /\ self'.params = call'.arg /\ result' = "ok")

C7_ReadyIsKept ==
    (Ready /\ call'.op \in {"update_params", "reset"})
    => (Ready' /\ self'.params = self.params)

C7_UpdateWritesBound ==
    (Ready /\ call'.op = "update_params")
    => /\ result' = "ok"
       /\ \A id \in CallerIds :
            heap'[id] # heap[id] =>
              \E i \in 1..Covered(call'.arg) : Params(self)[i] = id
       /\ \A i \in 1..Covered(call'.arg) :
            (self.cls = "GradientDescent" /\ ~AllZero(call'.arg[i]))
            => heap'[Params(self)[i]] # heap[Params(self)[i]]

\* C7 (as stated): initialise is the only operation that makes a rule READY
\* (its parameters bound); before initialise neither update_params nor reset
\* completes normally, in any rule; from READY, update_params and reset leave
\* the rule READY with the same binding, and an update still writes to the
\* bound parameter arrays and to no other array of the caller.
C7_Lifecycle ==
    [][self.cls # None =>
         /\ C7_InitialiseEntersReady
         /\ C7_ReadyIsKept
         /\ C7_UpdateWritesBound
         /\ (~Ready /\ call'.op \in {"update_params", "reset"})
            => (result' # "ok" /\ self' = self /\ heap' = heap)
      ]_vars

\* C7 (amended): as C7, except that before initialise it is update_params in
\* every rule, and reset in Momentum, RMSProp and Adam, that end in an error
\* (AttributeError) and change nothing; reset of GradientDescent is a no-op
\* that completes normally before initialise as it does after.
C7_LifecycleAmended ==
    [][self.cls # None =>
         /\ C7_InitialiseEntersReady
         /\ C7_ReadyIsKept
         /\ C7_UpdateWritesBound
         /\ (~Ready /\ (\/ call'.op = "update_params"
                        \/ call'.op = "reset" /\ self.cls # "GradientDescent"))
            => (result' = "AttributeError" /\ self' = self /\ heap' = heap)
         /\ (call'.op = "reset" /\ self.cls = "GradientDescent")
            => (result' = "ok" /\ self' = self /\ heap' = heap)
      ]_vars

\* A rule bound once to list B, whose second update has just moved B's array.
C7_Witness ==
    /\ self.cls = "GradientDescent"
    /\ Ready
    /\ self.params = "B"
    /\ ninit = 1
    /\ nupdates = 2
    /\ call.op = "update_params"
    /\ result = "ok"
    /\ heap[3] = ParamArray(<<R(4, 5)>>)

\* C8: with every gradient exactly zero, a GradientDescent update leaves
\* every parameter unchanged; a Momentum update multiplies each velocity by
\* mom_coeff and adds the result to the parameter, which is therefore
\* unchanged exactly when the decayed velocity is zero.
C8_ZeroGradient ==
    [][(/\ call'.op = "update_params"
        /\ Ready
        /\ AllZeroGrads(call'.arg))
       => /\ self.cls = "GradientDescent" =>
               \A id \in CallerIds : heap'[id] = heap[id]
          /\ self.cls = "Momentum" =>
               \A i \in 1..Covered(call'.arg) :
                 LET p == Params(self)[i]
                     v == self.moms[i]
                 IN  \A j \in 1..Len(heap[p]) :
                       /\ heap'[v][j] = RMul(self.mom_coeff, heap[v][j])
                       /\ heap'[p][j].q = RAdd(heap[p][j].q, heap'[v][j])
                       /\ (heap'[p][j] = heap[p][j]) <=> (heap'[v][j] = Zero)
      ]_vars

\* A zero-gradient Momentum update that left a decayed, non-zero velocity
\* (0.9 * -0.1) and so moved the parameter (1.0 - 0.1 - 0.09).
C8_Witness ==
    /\ self.cls = "Momentum"
    /\ Ready
    /\ self.params = "B"
    /\ call.op = "update_params"
    /\ AllZeroGrads(call.arg)
    /\ heap[self.moms[1]] = <<R(-9, 100)>>
    /\ heap[Params(self)[1]] = ParamArray(<<R(81, 100)>>)

\* C9: each Adam update sets first_moment'[i] = mom_coeff * first_moment[i]
\* + (1 - mom_coeff) * g[i] and second_moment'[i] = decay_rate *
\* second_moment[i] + (1 - decay_rate) * g[i]^2, and then subtracts
\* learning_rate * first_moment'[i] / (sqrt(second_moment'[i]) + 1e-8) from
\* the parameter: the updated moments, with no factor that depends on the
\* number of updates made.
C9_AdamUpdate ==
    [][(/\ call'.op = "update_params"
        /\ self.cls = "Adam"
        /\ result' = "ok")
       => \A i \in 1..Covered(call'.arg) :
            LET p == Params(self)[i]
                m1 == self.moms[i]
                m2 == self.averages[i]
                g == call'.arg[i]
            IN  \A j \in 1..Len(heap[p]) :
                  /\ heap'[m1][j] =
                       RAdd(RMul(self.mom_coeff, heap[m1][j]),
                            RMul(RSub(One, self.mom_coeff), g[j]))
                  /\ heap'[m2][j] =
                       RAdd(RMul(self.decay_rate, heap[m2][j]),
                            RMul(RSub(One, self.decay_rate), RMul(g[j], g[j])))
                  /\ heap'[p][j].q = heap[p][j].q
                  /\ heap'[p][j].s =
                       Append(heap[p][j].s,
                              [num |-> RMul(self.learning_rate, heap'[m1][j]),
                               avg |-> heap'[m2][j],
                               eps |-> Eps])
      ]_vars

\* Adam (0.1, 0.9, 0.9) after two updates with gradient 1: both moments 0.19.
C9_Witness ==
    /\ self.cls = "Adam"
    /\ Ready
    /\ self.params = "B"
    /\ self.mom_coeff = R(9, 10)
    /\ self.decay_rate = R(9, 10)
    /\ call.op = "update_params"
    /\ heap[self.moms[1]] = <<R(19, 100)>>
    /\ heap[self.averages[1]] = <<R(19, 100)>>
    /\ Len(heap[Params(self)[1]][1].s) = 2

\* accs is a list of newly allocated arrays, one per parameter of the list
\* just bound, each of its parameter's shape and filled with fill.
C10_Fresh(accs, fill) ==
    /\ Len(accs) = Len(ParamLists[call'.arg])
    /\ \A i \in 1..Len(accs) :
         /\ accs[i] \notin DOMAIN heap
         /\ accs[i] \in DOMAIN heap'
         /\ Len(heap'[accs[i]]) = Len(heap'[ParamLists[call'.arg][i]])
         /\ \A j \in 1..Len(heap'[accs[i]]) : heap'[accs[i]][j] = fill
         /\ \A k \in 1..Len(accs) : accs[k] = accs[i] => k = i

\* C10: after any initialise call on Momentum, RMSProp or Adam, each
\* accumulator list holds exactly one newly allocated array per parameter, of
\* that parameter's shape, every element at the fill value (0 for the
\* Momentum velocity and both Adam accumulators, 1 for the RMSProp average);
\* no array from before the call is among them; and update_params and reset
\* never change the accumulator lists.
C10_InitialiseAllocates ==
    [][/\ (call'.op = "initialise" /\ self.cls = "Momentum") =>
            C10_Fresh(self'.moms, Zero)
       /\ (call'.op = "initialise" /\ self.cls = "RMSProp") =>
            C10_Fresh(self'.averages, One)
       /\ (call'.op = "initialise" /\ self.cls = "Adam") =>
            /\ C10_Fresh(self'.moms, Zero)
            /\ C10_Fresh(self'.averages, Zero)
            /\ \A i \in 1..Len(self'.moms), k \in 1..Len(self'.averages) :
                 self'.moms[i] # self'.averages[k]
       /\ call'.op = "initialise" =>
            DOMAIN heap' =
                CallerIds \cup {self'.moms[i] : i \in 1..Len(self'.moms)}
                          \cup {self'.averages[i] : i \in 1..Len(self'.averages)}
       /\ call'.op \in {"update_params", "reset"} =>
            (self'.moms = self.moms /\ self'.averages = self.averages)
      ]_vars

\* An RMSProp rule re-bound to list A after an update had moved array 3 and
\* its old average: two fresh all-ones averages.
C10_Witness ==
    /\ self.cls = "RMSProp"
    /\ call.op = "initialise"
    /\ self.params = "A"
    /\ ninit = 2
    /\ heap[3] # CallerArrays[3]
    /\ Len(self.averages) = 2
    /\ heap[self.averages[1]] = <<One>>
    /\ heap[self.averages[2]] = <<One, One>>

====
